---- MODULE Spec2Model ----
(***************************************************************************)
(* Model of gvsbuild/utils/base_expanders.py: the archive extractor        *)
(* (extract_exec) with its extraction marker, the directory snapshot       *)
(* (dirlist2set) and the source acquirers (Tarball, MercurialRepo,         *)
(* GitRepo, NullExpander).                                                 *)
(*                                                                         *)
(* Strings are sequences of one-character strings, so that lower(),        *)
(* strip(), readline(), splitext() and basename() are computed as Python   *)
(* computes them.  A path is a sequence of components, each component a    *)
(* string in that sense.  The filesystem is a function from the paths      *)
(* that exist to their node, [kind, data].                                 *)
(***************************************************************************)
EXTENDS Naturals, Integers, Sequences, FiniteSets, TLC

VARIABLES
    \* ---- extract_exec and its callers
    fs,          \* the filesystem: path -> [kind, data]
    pc,          \* position of the running extract_exec call, "idle" when none
    pc_done,     \* history: the extraction or copy of the call ran to its end
    args,        \* arguments of the running (or last) extract_exec call
    check_file,  \* the local check_file, reset by line 81
    idx,         \* index of the next archive member to extract
    ret,         \* outcome of the last call: "none", "True", "False", "raised", "interrupted"
    opRet,       \* what the caller of extract_exec returned (Tarball methods)
    fsAtCall,    \* history: the filesystem when the call started
    fsAtExtract, \* history: the filesystem when the extraction proper started
    written,     \* history: the paths written by the running call
    purged,      \* history: the running call passed rmtree_full
    recipe,      \* the flags the owner of dest_dir calls extract_exec with
    prev,        \* history: summary of the call before the running one
    completedIn, \* history: full_dest -> base names extracted to completion since its last purge
    calls,       \* number of calls started
    \* ---- the git, hg and none acquirers
    kind,        \* the acquirer: "git", "hg" or "none"
    tag,         \* GitRepo.tag, <<>> when no tag is pinned
    fetch_submodules, \* GitRepo.fetch_submodules
    patch_dir,   \* os.path.exists(self.patch_dir)
    build_dir,   \* the canonical build directory: "absent", "partial" or "complete"
    tmp_dir,     \* '<build_dir>-tmp': "absent", "partial" or "complete"
    nested,      \* a clone sits inside the build directory, at '<build_dir>/<name>-tmp'
    submodules,  \* the submodules in the build directory: "absent", "partial" or "complete"
    vop,         \* the method running, or last run
    vpc,         \* its position, "idle" when none runs
    vret,        \* what the last method returned: "none", "None", "True", "raised", "interrupted"
    log,         \* the commands and steps of the method, in the order they ran
    dirsAtCall,  \* history: the four directory states when the method started
    ops,         \* number of methods started
    tag_name,    \* what get_tag_name returned last, <<>> before its first call
    zip_file,    \* the name of the snapshot zip create_zip wrote last, <<>> when none
    export_file, \* the file name GitRepo.export gave 'git archive', <<>> when none
    failed,      \* history: the command of the running method that failed, "" when none
    \* ---- dirlist2set
    tree,        \* the directory st_dir on disk: path below st_dir -> "dir" or "file"
    add_dirs,    \* the argument add_dirs
    skipped_dir, \* the caller's skipped_dir: given or None, and the list when given
    rt,          \* the set dirlist2set returned
    warned,      \* the '--zip-continue' warning was printed
    dpc,         \* "idle" before the call of dirlist2set, "load" in it, "done" after it
    case_sensitive, \* the filesystem of st_dir tells 'Bld' from 'bld'
    dstack,      \* the running calls of _load_single_dir: dir_name, entries left
    \* ---- make_zip
    files,       \* the argument files, a set of paths
    skip_spc,    \* the argument skip_spc
    zorder,      \* the order in which list(files) gave the elements of the set
    zqueue,      \* the list the for loop walks, what is left of it
    zf,          \* the entries written to the zip: filename and arcname
    zpc,         \* position of the running make_zip call, "idle" when none
    zprev,       \* history: zorder and zf of the call before
    zips,        \* number of calls of make_zip started
    \* ---- __get_stripped_tar_members on a tar with links
    tar_members, \* tar.getmembers(): name, type and, for a link, linkname
    tar_idx,     \* index of the next member the generator looks at
    tar_yielded, \* the members yielded so far, each with the index it came from
    tar_pc       \* "idle", "gen" while the generator runs, "done" or "raised"

evars == <<fs, pc, pc_done, args, check_file, idx, ret, opRet, fsAtCall, fsAtExtract,
           written, purged, recipe, prev, completedIn, calls>>

vvars == <<kind, tag, fetch_submodules, patch_dir, build_dir, tmp_dir, nested,
           submodules, vop, vpc, vret, log, dirsAtCall, ops,
           tag_name, zip_file, export_file, failed>>

dvars == <<tree, add_dirs, skipped_dir, rt, warned, dpc, case_sensitive, dstack>>

zvars == <<files, skip_spc, zorder, zqueue, zf, zpc, zprev, zips>>

tvars == <<tar_members, tar_idx, tar_yielded, tar_pc>>

vars == <<evars, vvars, dvars, zvars, tvars>>

\* what the actions of extract_exec leave alone
notExtract == <<vvars, dvars, zvars, tvars>>

\* what the actions of the acquirers leave alone
notVcs == <<evars, dvars, zvars, tvars>>

\* what dirlist2set leaves alone
notDir == <<evars, vvars, zvars, tvars>>

\* what make_zip leaves alone
notZip == <<evars, vvars, dvars, tvars>>

\* what the generator of stripped tar members leaves alone
notTar == <<evars, vvars, dvars, zvars>>

\* ------------------------------------------------------------------ bounds

\* calls of extract_exec (direct or through Tarball) in one behaviour
MaxCalls == 3

\* calls of the methods of a git, hg or none acquirer in one behaviour
MaxOps == 3

\* calls of make_zip in one behaviour
MaxZips == 2

\* link members in one tar
MaxLinks == 2

\* ----------------------------------------------------------------- strings

UpperCase ==
    <<"A", "B", "C", "D", "E", "F", "G", "H", "I", "J", "K", "L", "M",
      "N", "O", "P", "Q", "R", "S", "T", "U", "V", "W", "X", "Y", "Z">>

LowerCase ==
    <<"a", "b", "c", "d", "e", "f", "g", "h", "i", "j", "k", "l", "m",
      "n", "o", "p", "q", "r", "s", "t", "u", "v", "w", "x", "y", "z">>

\* str.lower() on one character
LowerChar(c) ==
    IF \E i \in DOMAIN UpperCase : UpperCase[i] = c
    THEN LowerCase[CHOOSE i \in DOMAIN UpperCase : UpperCase[i] = c]
    ELSE c

lower(s) == [i \in 1..Len(s) |-> LowerChar(s[i])]

\* the characters str.strip() removes
Whitespace == {" ", "\t", "\n", "\r"}

RECURSIVE lstrip(_)
lstrip(s) == IF s # <<>> /\ Head(s) \in Whitespace THEN lstrip(Tail(s)) ELSE s

RECURSIVE rstrip(_)
rstrip(s) ==
    IF s # <<>> /\ s[Len(s)] \in Whitespace
    THEN rstrip(SubSeq(s, 1, Len(s) - 1))
    ELSE s

strip(s) == rstrip(lstrip(s))

\* file.readline(): up to and including the first newline
readline(s) ==
    LET nl == {i \in 1..Len(s) : s[i] = "\n"}
    IN  IF nl = {} THEN s
        ELSE SubSeq(s, 1, CHOOSE i \in nl : \A j \in nl : i <= j)

\* os.path.splitext on one path component: the extension starts at the last
\* dot, unless only dots precede it
splitext_ext(s) ==
    LET dots == {i \in 1..Len(s) : s[i] = "."}
    IN  IF dots = {} THEN <<>>
        ELSE LET d == CHOOSE i \in dots : \A j \in dots : j <= i
             IN  IF \E k \in 1..(d - 1) : s[k] # "."
                 THEN SubSeq(s, d, Len(s))
                 ELSE <<>>

\* ------------------------------------------------------------------- paths

\* os.path.basename
basename(p) == IF p = <<>> THEN <<>> ELSE p[Len(p)]

\* os.path.join(a, b) for a relative b
join(p, q) == p \o q

IsPrefix(p, q) == Len(p) <= Len(q) /\ SubSeq(q, 1, Len(p)) = p

Ancestors(p) == {SubSeq(p, 1, n) : n \in 1..(Len(p) - 1)}

DirNode == [kind |-> "dir", data |-> <<>>]
FileNode(d) == [kind |-> "file", data |-> d]

exists(f, p) == p \in DOMAIN f
isfile(f, p) == p \in DOMAIN f /\ f[p].kind = "file"
isdir(f, p) == p \in DOMAIN f /\ f[p].kind = "dir"

Remove(f, gone) == [q \in (DOMAIN f) \ gone |-> f[q]]

\* the directories that creating p needs and are not there yet
MissingDirs(f, ps) == {q \in ps : q \notin DOMAIN f}

AddDirs(f, ps) == [q \in MissingDirs(f, ps) |-> DirNode] @@ f

\* os.makedirs(p, exist_ok=True) fails when a component exists as a file
makedirs_fails(f, p) == \E q \in Ancestors(p) \cup {p} : isfile(f, q)
makedirs(f, p) == AddDirs(f, Ancestors(p) \cup {p})

\* ------------------------------------------------- the files of the model

D == <<"d">>
W == <<"w">>
F == <<"f">>
E == <<"e">>
T == <<"t">>
O == <<"o">>
X == <<"x">>

Root == <<>>

\* the dest_dir every call of the model extracts to (Tarball: build_dir)
dest_dir == <<D>>

\* '.wingtk-extracted-file' (lines 72 and 130)
MarkerName ==
    <<".", "w", "i", "n", "g", "t", "k", "-", "e", "x", "t", "r", "a", "c",
      "t", "e", "d", "-", "f", "i", "l", "e">>

\* An archive member: its name split at '/', its type and its content.
Member(n, t, d) == [name |-> n, type |-> t, data |-> d]

\* a tar with one wrapping directory, holding a file and an empty directory
SrcTarWrapped ==
    [path |-> <<<<"a", ".", "t", "g", "z">>>>,
     data |-> <<"A">>,
     members |-> <<Member(<<W>>, "dir", <<>>),
                   Member(<<W, F>>, "file", <<"1">>),
                   Member(<<W, E>>, "dir", <<>>)>>]

\* a tar whose last member is a file at the top level
SrcTarTopFile ==
    [path |-> <<<<"b", ".", "t", "a", "r">>>>,
     data |-> <<"B">>,
     members |-> <<Member(<<W>>, "dir", <<>>),
                   Member(<<W, F>>, "file", <<"1">>),
                   Member(<<T>>, "file", <<"3">>)>>]

\* a zip with one wrapping directory, holding a file and an empty directory
SrcZipWrapped ==
    [path |-> <<<<"c", ".", "Z", "I", "P">>>>,
     data |-> <<"C">>,
     members |-> <<Member(<<W>>, "dir", <<>>),
                   Member(<<W, F>>, "file", <<"1">>),
                   Member(<<W, E>>, "dir", <<>>)>>]

\* an executable, copied as it is
SrcExe ==
    [path |-> <<<<"x", ".", "e", "x", "e">>>>,
     data |-> <<"5">>,
     members |-> <<>>]

\* a wrapped tar whose base name starts with a blank
SrcTarBlank ==
    [path |-> <<<<" ", "a", ".", "t", "g", "z">>>>,
     data |-> <<"S">>,
     members |-> <<Member(<<W>>, "dir", <<>>),
                   Member(<<W, F>>, "file", <<"1">>)>>]

\* a zip with a wrapping directory and a file at the top level
SrcZipTopFile ==
    [path |-> <<<<"e", ".", "z", "i", "p">>>>,
     data |-> <<"E">>,
     members |-> <<Member(<<W>>, "dir", <<>>),
                   Member(<<W, F>>, "file", <<"1">>),
                   Member(<<T>>, "file", <<"3">>)>>]

Sources ==
    {SrcTarWrapped, SrcTarTopFile, SrcZipWrapped, SrcExe, SrcTarBlank, SrcZipTopFile}

\* line 101: the lower-cased extension of src
ext(src) == splitext_ext(lower(basename(src.path)))

ExtExe == <<".", "e", "x", "e">>
ExtZip == <<".", "z", "i", "p">>

\* check_file: omitted (None), the empty string, or a path
CheckFileNone == [given |-> FALSE, path |-> <<>>]
CheckFileEmpty == [given |-> TRUE, path |-> <<>>]
CheckFilePath(p) == [given |-> TRUE, path |-> p]

CheckFiles ==
    {CheckFileNone, CheckFileEmpty,
     CheckFilePath(<<D, F>>), CheckFilePath(<<D, E>>)}

\* A destination belongs to one project or tool, which calls extract_exec
\* with the same flags every time; the source changes from call to call.
\* force_dest is read for an exe only.
DirectRecipes ==
    {r \in [dir_part : {<<>>, W}, strip_one : BOOLEAN,
            check_file : CheckFiles, force_dest : {<<>>, <<X>>},
            check_mark : BOOLEAN, caller : {"extract_exec"}] :
        r.force_dest # <<>> => ~r.strip_one}

\* lines 181 and 187: what Tarball passes to extract_exec
TarballRecipes ==
    {[dir_part |-> <<>>, strip_one |-> ~tarbomb, check_file |-> CheckFileNone,
      force_dest |-> <<>>, check_mark |-> TRUE, caller |-> "Tarball"] :
        tarbomb \in BOOLEAN}

Recipes == DirectRecipes \cup TarballRecipes

\* the arguments of one call: the recipe, the source and the entry point
Call(r, src, method) ==
    [src |-> src, dir_part |-> r.dir_part, strip_one |-> r.strip_one,
     check_file |-> r.check_file, force_dest |-> r.force_dest,
     check_mark |-> r.check_mark, caller |-> method]

\* lines 64-67
full_dest(a) == IF a.dir_part # <<>> THEN join(dest_dir, <<a.dir_part>>) ELSE dest_dir

FullDests == {dest_dir, join(dest_dir, <<W>>)}

MarkerPath(a) == join(full_dest(a), <<MarkerName>>)

\* the filesystem before anything was extracted: nothing, or a destination
\* filled by hand, without a marker
EmptyFs == (Root :> DirNode)

StaleFs ==
    (Root :> DirNode) @@ (<<D>> :> DirNode) @@ (<<D, O>> :> FileNode(<<"0">>))
    @@ (<<D, W>> :> DirNode) @@ (<<D, W, O>> :> FileNode(<<"0">>))

\* --------------------------------------------------- library operations

\* rmtree_full(full_dest, retry=True): the whole tree is gone afterwards
rmtree_full(f, p) == Remove(f, {q \in DOMAIN f : IsPrefix(p, q)})

\* zipfile / tarfile cannot write the entry `target` of type t: a parent is a
\* file, or the path is there with the other kind
ExtractFails(f, target, t) ==
    \/ \E q \in Ancestors(target) : isfile(f, q)
    \/ t = "file" /\ isdir(f, target)
    \/ t = "dir" /\ isfile(f, target)

\* the paths that extracting one entry creates or overwrites
ExtractPaths(f, target, t) ==
    MissingDirs(f, Ancestors(target)) \cup
    (IF t = "dir" /\ exists(f, target) THEN {} ELSE {target})

\* ZipFile.extract / TarFile.extractall for one entry, below the directory base
ExtractOne(f, base, m) ==
    LET target == join(base, m.name)
    IN  IF m.type = "dir"
        THEN AddDirs(f, Ancestors(target) \cup {target})
        ELSE (target :> FileNode(m.data)) @@ AddDirs(f, Ancestors(target))

\* zf.extractall(path) / tar.extractall(path, tar.getmembers()): every entry
\* as it is stored (lines 122 and 126 without strip_one)
RECURSIVE extractall(_, _, _)
extractall(f, base, members) ==
    IF members = <<>> THEN f
    ELSE extractall(ExtractOne(f, base, Head(members)), base, Tail(members))

\* shutil.copy2(src, dst): into dst when it is a directory, else onto it
copy2_target(f, src, dst) ==
    IF isdir(f, dst) THEN join(dst, <<basename(src.path)>>) ELSE dst

copy2_fails(f, src, dst) ==
    \E q \in Ancestors(copy2_target(f, src, dst)) : ~isdir(f, q)

copy2(f, src, dst) == (copy2_target(f, src, dst) :> FileNode(src.data)) @@ f

\* tarinfo.issym() or tarinfo.islnk() (line 60)
IsLink(tarinfo) == tarinfo.type \in {"sym", "lnk"}

\* lines 51-62, for one member: dropped, refused, or yielded with the first
\* segment of its name and, for a link, of its linkname removed
get_stripped_tar_member(tarinfo) ==
    IF Len(tarinfo.name) = 1
    THEN IF tarinfo.type = "dir"
         THEN [act |-> "continue", member |-> tarinfo]
         ELSE [act |-> "raise", member |-> tarinfo]
    ELSE [act |-> "yield",
          member |-> IF IsLink(tarinfo)
                     THEN [tarinfo EXCEPT !.name = Tail(tarinfo.name),
                                          !.linkname = Tail(tarinfo.linkname)]
                     ELSE [tarinfo EXCEPT !.name = Tail(tarinfo.name)]]

\* lines 113-120, for one entry: skipped, or extracted with the first segment
\* of its name removed when it has more than one
get_stripped_zip_member(m) ==
    IF m.type = "dir"
    THEN [act |-> "continue", member |-> m]
    ELSE [act |-> "yield",
          member |-> IF Len(m.name) > 1 THEN [m EXCEPT !.name = Tail(m.name)] ELSE m]

\* lines 72-75: the first line of the marker, stripped; '' when it cannot be read
rd_file(f, a) ==
    IF isfile(f, MarkerPath(a)) THEN strip(readline(f[MarkerPath(a)].data)) ELSE <<>>

\* line 77
wr_file(a) == basename(a.src.path)

\* line 131: what is written to the marker
MarkerText(a) == basename(a.src.path) \o <<"\n">>

\* lines 86-96 with os.path.exists in the place of os.path.isfile on line 89
check_file_skips_exists(f, cf, a) ==
    /\ cf.given
    /\ IF cf.path # <<>> THEN exists(f, cf.path) ELSE exists(f, full_dest(a))

\* lines 86-96: the extraction is skipped
check_file_skips(f, cf, a) ==
    /\ cf.given
    /\ IF cf.path # <<>> THEN isfile(f, cf.path) ELSE exists(f, full_dest(a))

\* ------------------------------------------------------------ extract_exec

NoCall ==
    [src |-> SrcExe, dir_part |-> <<>>, strip_one |-> FALSE,
     check_file |-> CheckFileNone, force_dest |-> <<>>, check_mark |-> FALSE,
     caller |-> "extract_exec"]

Summary(a, r, p, c) ==
    [src |-> a.src, dir_part |-> a.dir_part, check_mark |-> a.check_mark,
     ret |-> r, purged |-> p, completed |-> c]

InitExtract ==
    /\ fs \in {EmptyFs, StaleFs}
    /\ pc = "idle"
    /\ pc_done = FALSE
    /\ recipe \in Recipes
    /\ args = NoCall
    /\ check_file = CheckFileNone
    /\ idx = 1
    /\ ret = "none"
    /\ opRet = "none"
    /\ fsAtCall = fs
    /\ fsAtExtract = fs
    /\ written = {}
    /\ purged = FALSE
    /\ prev = Summary(NoCall, "none", FALSE, FALSE)
    /\ completedIn = [d \in FullDests |-> {}]
    /\ calls = 0

\* extract_exec is entered with the arguments a (line 30)
Start(a) ==
    /\ pc = "idle"
    /\ calls < MaxCalls
    /\ pc' = "check_mark"
    /\ pc_done' = FALSE
    /\ args' = a
    /\ check_file' = a.check_file
    /\ idx' = 1
    /\ ret' = "running"
    /\ opRet' = "running"
    /\ fsAtCall' = fs
    /\ fsAtExtract' = fs
    /\ written' = {}
    /\ purged' = FALSE
    /\ prev' = Summary(args, ret, purged, pc_done)
    /\ calls' = calls + 1
    /\ UNCHANGED <<fs, recipe, completedIn>>
    /\ UNCHANGED notExtract

\* extract_exec leaves with r: a return value, an exception, or an interrupt.
\* Tarball.update_build_dir returns what extract_exec returned (line 183),
\* Tarball.unpack returns nothing (line 188).
Finish(r) ==
    /\ pc' = "idle"
    /\ UNCHANGED pc_done
    /\ ret' = r
    /\ opRet' = IF args.caller = "Tarball.unpack" /\ r \in {"True", "False"}
                THEN "None" ELSE r

extract_exec_call ==
    /\ recipe.caller = "extract_exec"
    /\ \E src \in Sources :
          /\ (recipe.force_dest # <<>> => ext(src) = ExtExe)
          /\ Start(Call(recipe, src, "extract_exec"))

\* line 181
Tarball_update_build_dir ==
    /\ recipe.caller = "Tarball"
    /\ \E archive_file \in Sources \ {SrcExe} :
          Start(Call(recipe, archive_file, "Tarball.update_build_dir"))

\* line 187
Tarball_unpack ==
    /\ recipe.caller = "Tarball"
    /\ \E archive_file \in Sources \ {SrcExe} :
          Start(Call(recipe, archive_file, "Tarball.unpack"))

\* lines 69-84
CheckMark ==
    /\ pc = "check_mark"
    /\ IF args.check_mark
       THEN IF rd_file(fs, args) # wr_file(args)
            THEN /\ fs' = rmtree_full(fs, full_dest(args))
                 /\ check_file' = CheckFileNone
                 /\ purged' = TRUE
                 /\ completedIn' =
                        [d \in FullDests |->
                            IF IsPrefix(full_dest(args), d) THEN {} ELSE completedIn[d]]
                 /\ pc' = "check_file"
                 /\ UNCHANGED <<ret, opRet, pc_done>>
            ELSE /\ Finish("False")
                 /\ UNCHANGED <<fs, check_file, purged, completedIn>>
       ELSE /\ pc' = "check_file"
            /\ UNCHANGED <<fs, check_file, purged, completedIn, ret, opRet, pc_done>>
    /\ UNCHANGED <<args, idx, fsAtCall, fsAtExtract, written, recipe, prev, calls>>
    /\ UNCHANGED notExtract

\* lines 86-96
CheckFile ==
    /\ pc = "check_file"
    /\ IF check_file_skips(fs, check_file, args)
       THEN Finish("False")
       ELSE pc' = "makedirs" /\ UNCHANGED <<ret, opRet, pc_done>>
    /\ UNCHANGED <<fs, args, check_file, idx, fsAtCall, fsAtExtract, written,
                   purged, recipe, prev, completedIn, calls>>
    /\ UNCHANGED notExtract

\* lines 98-99 with the marker of lines 128-131 written here, before the
\* extraction
MakeDirs_MarkFirst ==
    /\ pc = "makedirs"
    /\ IF makedirs_fails(fs, full_dest(args))
       THEN /\ Finish("raised")
            /\ UNCHANGED <<fs, fsAtExtract, written>>
       ELSE /\ fs' = IF args.check_mark
                     THEN (MarkerPath(args) :> FileNode(MarkerText(args)))
                          @@ makedirs(fs, full_dest(args))
                     ELSE makedirs(fs, full_dest(args))
            /\ fsAtExtract' = fs'
            /\ written' = written \cup
                   MissingDirs(fs, Ancestors(full_dest(args)) \cup {full_dest(args)})
            /\ pc' = "extract"
            /\ UNCHANGED <<ret, opRet, pc_done>>
    /\ UNCHANGED <<args, check_file, idx, fsAtCall, purged, recipe, prev, completedIn, calls>>
    /\ UNCHANGED notExtract

\* lines 98-99
MakeDirs ==
    /\ pc = "makedirs"
    /\ IF makedirs_fails(fs, full_dest(args))
       THEN /\ Finish("raised")
            /\ UNCHANGED <<fs, fsAtExtract, written>>
       ELSE /\ fs' = makedirs(fs, full_dest(args))
            /\ fsAtExtract' = fs'
            /\ written' = written \cup
                   MissingDirs(fs, Ancestors(full_dest(args)) \cup {full_dest(args)})
            /\ pc' = "extract"
            /\ UNCHANGED <<ret, opRet, pc_done>>
    /\ UNCHANGED <<args, check_file, idx, fsAtCall, purged, recipe, prev, completedIn, calls>>
    /\ UNCHANGED notExtract

\* the extraction or copy ran to its end: on to line 128
ExtractionDone ==
    /\ pc' = "mark"
    /\ pc_done' = TRUE
    /\ completedIn' = [completedIn EXCEPT ![full_dest(args)] = @ \cup {wr_file(args)}]
    /\ UNCHANGED <<ret, opRet>>

\* lines 102-107
CopyExe ==
    /\ pc = "extract"
    /\ ext(args.src) = ExtExe
    /\ LET dst == IF args.force_dest # <<>> THEN args.force_dest ELSE dest_dir
       IN  IF copy2_fails(fs, args.src, dst)
           THEN /\ Finish("raised")
                /\ UNCHANGED <<fs, written, completedIn>>
           ELSE /\ fs' = copy2(fs, args.src, dst)
                /\ written' = written \cup {copy2_target(fs, args.src, dst)}
                /\ ExtractionDone
    /\ UNCHANGED <<args, check_file, idx, fsAtCall, fsAtExtract, purged, recipe, prev, calls>>
    /\ UNCHANGED notExtract

\* one entry m is handed to the archive library, to be written below dest_dir
Extract(m) ==
    LET target == join(dest_dir, m.name)
    IN  IF ExtractFails(fs, target, m.type)
        THEN /\ Finish("raised")
             /\ UNCHANGED <<fs, written, completedIn, idx>>
        ELSE /\ fs' = ExtractOne(fs, dest_dir, m)
             /\ written' = written \cup ExtractPaths(fs, target, m.type)
             /\ idx' = idx + 1
             /\ IF idx = Len(args.src.members)
                THEN ExtractionDone
                ELSE UNCHANGED <<pc, pc_done, ret, opRet, completedIn>>

\* an entry is passed over
Skip ==
    /\ idx' = idx + 1
    /\ UNCHANGED <<fs, written>>
    /\ IF idx = Len(args.src.members)
       THEN ExtractionDone
       ELSE UNCHANGED <<pc, pc_done, ret, opRet, completedIn>>

\* lines 108-122, one entry of the zip
ExtractZipMember ==
    /\ pc = "extract"
    /\ ext(args.src) = ExtZip
    /\ idx <= Len(args.src.members)
    /\ LET m == args.src.members[idx]
           s == get_stripped_zip_member(m)
       IN  IF args.strip_one
           THEN IF s.act = "continue" THEN Skip ELSE Extract(s.member)
           ELSE Extract(m)
    /\ UNCHANGED <<args, check_file, fsAtCall, fsAtExtract, purged, recipe, prev, calls>>
    /\ UNCHANGED notExtract

\* lines 123-126, one member of the tar: extractall draws the members from
\* the generator one at a time and extracts each before asking for the next
ExtractTarMember ==
    /\ pc = "extract"
    /\ ext(args.src) \notin {ExtExe, ExtZip}
    /\ idx <= Len(args.src.members)
    /\ LET m == args.src.members[idx]
           s == get_stripped_tar_member(m)
       IN  IF args.strip_one
           THEN CASE s.act = "continue" -> Skip
                  [] s.act = "raise" ->
                        /\ Finish("raised")
                        /\ UNCHANGED <<fs, written, completedIn, idx>>
                  [] OTHER -> Extract(s.member)
           ELSE Extract(m)
    /\ UNCHANGED <<args, check_file, fsAtCall, fsAtExtract, purged, recipe, prev, calls>>
    /\ UNCHANGED notExtract

\* lines 128-130: the marker is opened for writing, which creates or empties it
MarkOpen ==
    /\ pc = "mark"
    /\ IF args.check_mark
       THEN /\ fs' = (MarkerPath(args) :> FileNode(<<>>)) @@ fs
            /\ written' = written \cup {MarkerPath(args)}
            /\ pc' = "mark_write"
       ELSE /\ pc' = "return"
            /\ UNCHANGED <<fs, written>>
    /\ UNCHANGED <<pc_done, args, check_file, idx, ret, opRet, fsAtCall, fsAtExtract,
                   purged, recipe, prev, completedIn, calls>>
    /\ UNCHANGED notExtract

\* line 131 and the end of the with block: the base name reaches the marker
MarkWrite ==
    /\ pc = "mark_write"
    /\ fs' = (MarkerPath(args) :> FileNode(MarkerText(args))) @@ fs
    /\ pc' = "return"
    /\ UNCHANGED <<pc_done, args, check_file, idx, ret, opRet, fsAtCall, fsAtExtract,
                   written, purged, recipe, prev, completedIn, calls>>
    /\ UNCHANGED notExtract

\* line 133
ReturnTrue ==
    /\ pc = "return"
    /\ Finish("True")
    /\ UNCHANGED <<fs, args, check_file, idx, fsAtCall, fsAtExtract, written,
                   purged, recipe, prev, completedIn, calls>>
    /\ UNCHANGED notExtract

\* the process is killed, or the call is abandoned, at any point of a call
Interrupt ==
    /\ pc # "idle"
    /\ Finish("interrupted")
    /\ UNCHANGED <<fs, args, check_file, idx, fsAtCall, fsAtExtract, written,
                   purged, recipe, prev, completedIn, calls>>
    /\ UNCHANGED notExtract

NextExtract ==
    \/ extract_exec_call
    \/ Tarball_update_build_dir
    \/ Tarball_unpack
    \/ CheckMark
    \/ CheckFile
    \/ MakeDirs
    \/ CopyExe
    \/ ExtractZipMember
    \/ ExtractTarMember
    \/ MarkOpen
    \/ MarkWrite
    \/ ReturnTrue
    \/ Interrupt

\* ------------------------------------------- the git, hg and none acquirers

\* the tags of the model: none pinned, 'v1.0!' or 'R-2_b'
Tags == {<<>>, <<"v", "1", ".", "0", "!">>, <<"R", "-", "2", "_", "b">>}

Digits == <<"0", "1", "2", "3", "4", "5", "6", "7", "8", "9">>

\* str.isalnum() on one character of the tags
isalnum(c) ==
    \/ \E i \in DOMAIN UpperCase : UpperCase[i] = c
    \/ \E i \in DOMAIN LowerCase : LowerCase[i] = c
    \/ \E i \in DOMAIN Digits : Digits[i] = c

\* lines 220-221: ''.join([c if c.isalnum() else '_' for c in self.tag])
sanitized(t) == [i \in 1..Len(t) |-> IF isalnum(t[i]) THEN t[i] ELSE "_"]

\* what 'git rev-parse --short HEAD' writes to '.git-temp.rsp'
RevParseOutput == <<"a", "1", "f", "\n">>

\* str.rstrip('\n')
RECURSIVE rstrip_nl(_)
rstrip_nl(t) ==
    IF t # <<>> /\ t[Len(t)] = "\n" THEN rstrip_nl(SubSeq(t, 1, Len(t) - 1)) ELSE t

\* self.prj_dir and self.name
PrjDir == <<"p">>
Name == <<"n">>

DotZip == <<".", "z", "i", "p">>

dirs == <<build_dir, tmp_dir, nested, submodules>>

\* no acquirer method runs or has run
IdleVcs ==
    /\ kind = "none"
    /\ tag = <<>>
    /\ fetch_submodules = FALSE
    /\ patch_dir = FALSE
    /\ build_dir = "absent"
    /\ tmp_dir = "absent"
    /\ nested = FALSE
    /\ submodules = "absent"
    /\ vop = "none"
    /\ vpc = "idle"
    /\ vret = "none"
    /\ log = <<>>
    /\ dirsAtCall = dirs
    /\ ops = 0
    /\ tag_name = <<>>
    /\ zip_file = <<>>
    /\ export_file = <<>>
    /\ failed = ""

\* An acquirer of one kind, before its first method runs: the build directory
\* is not there yet, or holds the checkout of an earlier run.
InitVcs ==
    /\ kind \in {"git", "hg", "none"}
    /\ tag \in (IF kind = "git" THEN Tags ELSE {<<>>})
    /\ fetch_submodules \in (IF kind = "git" THEN BOOLEAN ELSE {FALSE})
    /\ patch_dir \in (IF kind = "git" THEN BOOLEAN ELSE {FALSE})
    /\ build_dir \in {"absent", "complete"}
    /\ tmp_dir = "absent"
    /\ nested = FALSE
    /\ submodules = "absent"
    /\ vop = "none"
    /\ vpc = "idle"
    /\ vret = "none"
    /\ log = <<>>
    /\ dirsAtCall = dirs
    /\ ops = 0
    /\ tag_name = <<>>
    /\ zip_file = <<>>
    /\ export_file = <<>>
    /\ failed = ""

\* a method of the acquirer is entered
VStart(op, first) ==
    /\ vpc = "idle"
    /\ ops < MaxOps
    /\ vop' = op
    /\ vpc' = first
    /\ vret' = "running"
    /\ log' = <<>>
    /\ dirsAtCall' = dirs
    /\ ops' = ops + 1
    /\ failed' = ""
    /\ UNCHANGED <<kind, tag, fetch_submodules, patch_dir, build_dir, tmp_dir,
                   nested, submodules>>
    /\ UNCHANGED <<tag_name, zip_file, export_file>>
    /\ UNCHANGED notVcs

\* the method leaves with r: its return value, an exception or an interrupt
VFinish(r) ==
    /\ vpc' = "idle"
    /\ vret' = r

\* the command cmd ended with a non-zero exit status: the exception leaves
\* the method
Fail(cmd) ==
    /\ failed' = cmd
    /\ VFinish("raised")

\* builder.exec_msys / exec_cmd: the command runs to its end; a non-zero exit
\* status raises, and the method goes no further
Exec(at, cmd, next) ==
    /\ vpc = at
    /\ log' = Append(log, cmd)
    /\ \E ok \in BOOLEAN :
          IF ok THEN vpc' = next /\ UNCHANGED <<vret, failed>> ELSE Fail(cmd)
    /\ UNCHANGED <<kind, tag, fetch_submodules, patch_dir, build_dir, tmp_dir,
                   nested, submodules, vop, dirsAtCall, ops>>
    /\ UNCHANGED <<tag_name, zip_file, export_file>>
    /\ UNCHANGED notVcs

\* 'git clone <url> <build_dir>-tmp' / 'hg clone <url> <build_dir>-tmp': the
\* tool refuses a target that is there already; a clone that fails leaves
\* nothing or a part of the tree at the target
Clone(at, cmd, next) ==
    /\ vpc = at
    /\ log' = Append(log, cmd)
    /\ \E ok \in BOOLEAN :
          IF ok /\ tmp_dir = "absent"
          THEN /\ tmp_dir' = "complete"
               /\ vpc' = next
               /\ UNCHANGED <<vret, failed>>
          ELSE /\ tmp_dir' \in (IF tmp_dir = "absent" THEN {"absent", "partial"} ELSE {tmp_dir})
               /\ Fail(cmd)
    /\ UNCHANGED <<kind, tag, fetch_submodules, patch_dir, build_dir, nested,
                   submodules, vop, dirsAtCall, ops>>
    /\ UNCHANGED <<tag_name, zip_file, export_file>>
    /\ UNCHANGED notVcs

\* the clone made in the canonical build directory itself
CloneInPlace(at, cmd, next) ==
    /\ vpc = at
    /\ log' = Append(log, cmd)
    /\ \E ok \in BOOLEAN :
          IF ok /\ build_dir = "absent"
          THEN /\ build_dir' = "complete"
               /\ vpc' = next
               /\ UNCHANGED <<vret, failed>>
          ELSE /\ build_dir' \in (IF build_dir = "absent" THEN {"absent", "partial"} ELSE {build_dir})
               /\ Fail(cmd)
    /\ UNCHANGED <<kind, tag, fetch_submodules, patch_dir, tmp_dir, nested,
                   submodules, vop, dirsAtCall, ops>>
    /\ UNCHANGED <<tag_name, zip_file, export_file>>
    /\ UNCHANGED notVcs

\* shutil.move(build_dir + '-tmp', build_dir): a rename when build_dir is not
\* there, a move into build_dir when it is a directory, an error when the
\* source is missing or the place inside build_dir is taken
Move(at, next) ==
    /\ vpc = at
    /\ log' = Append(log, "move")
    /\ IF tmp_dir = "absent" \/ (build_dir # "absent" /\ nested)
       THEN /\ VFinish("raised")
            /\ UNCHANGED <<build_dir, tmp_dir, nested>>
       ELSE /\ IF build_dir = "absent"
               THEN build_dir' = tmp_dir /\ UNCHANGED nested
               ELSE nested' = TRUE /\ UNCHANGED build_dir
            /\ tmp_dir' = "absent"
            /\ IF next = "idle" THEN VFinish("None") ELSE vpc' = next /\ UNCHANGED vret
    /\ UNCHANGED <<kind, tag, fetch_submodules, patch_dir, submodules, vop,
                   dirsAtCall, ops>>
    /\ UNCHANGED <<tag_name, zip_file, export_file, failed>>
    /\ UNCHANGED notVcs

\* ---- MercurialRepo

\* line 205
Hg_unpack == kind = "hg" /\ VStart("unpack", "hg_clone")

\* line 207 with the exit status of 'hg clone' not looked at
Hg_clone_Unchecked ==
    /\ kind = "hg"
    /\ vpc = "hg_clone"
    /\ log' = Append(log, "hg clone")
    /\ \E ok \in BOOLEAN :
          IF ok /\ tmp_dir = "absent"
          THEN /\ tmp_dir' = "complete"
               /\ UNCHANGED failed
          ELSE /\ tmp_dir' \in (IF tmp_dir = "absent" THEN {"absent", "partial"} ELSE {tmp_dir})
               /\ failed' = "hg clone"
    /\ vpc' = "hg_move"
    /\ UNCHANGED <<kind, tag, fetch_submodules, patch_dir, build_dir, nested,
                   submodules, vop, vret, dirsAtCall, ops>>
    /\ UNCHANGED <<tag_name, zip_file, export_file>>
    /\ UNCHANGED notVcs

\* line 207
Hg_clone == kind = "hg" /\ Clone("hg_clone", "hg clone", "hg_move")

\* lines 208-209: unpack ends and returns nothing
Hg_move == kind = "hg" /\ Move("hg_move", "idle")

\* line 211
Hg_update_build_dir == kind = "hg" /\ VStart("update_build_dir", "hg_pull")

\* lines 213-214: update_build_dir ends and returns nothing
Hg_pull ==
    /\ vpc = "hg_pull"
    /\ log' = Append(log, "hg pull -u")
    /\ \E ok \in BOOLEAN :
          IF ok THEN VFinish("None") /\ UNCHANGED failed ELSE Fail("hg pull -u")
    /\ UNCHANGED <<kind, tag, fetch_submodules, patch_dir, build_dir, tmp_dir,
                   nested, submodules, vop, dirsAtCall, ops>>
    /\ UNCHANGED <<tag_name, zip_file, export_file>>
    /\ UNCHANGED notVcs

\* ---- GitRepo

\* where unpack and update_build_dir go once the checkout is made
AfterCheckout == IF fetch_submodules THEN "git_submodule" ELSE "create_zip"

\* line 248
Git_unpack == kind = "git" /\ VStart("unpack", "git_clone")

\* line 251 with build_dir as the target of the clone
Git_clone_InPlace ==
    /\ kind = "git"
    /\ CloneInPlace("git_clone", "git clone",
                    IF tag # <<>> THEN "git_checkout_tag" ELSE AfterCheckout)

\* line 251
Git_clone == kind = "git" /\ Clone("git_clone", "git clone", "git_move")

\* lines 252-254
Git_move ==
    kind = "git" /\ Move("git_move", IF tag # <<>> THEN "git_checkout_tag" ELSE AfterCheckout)

\* line 264
Git_update_build_dir == kind = "git" /\ VStart("update_build_dir", "git_clean")

\* lines 268-272 with 'git fetch origin' left out
Git_clean_NoFetch ==
    kind = "git" /\ Exec("git_clean", "git clean -xdf",
                         IF tag # <<>> THEN "git_checkout_tag" ELSE "git_checkout")

\* lines 268-270
Git_clean ==
    kind = "git" /\ Exec("git_clean", "git clean -xdf", IF tag # <<>> THEN "git_fetch" ELSE "git_checkout")

\* line 271
Git_fetch == kind = "git" /\ Exec("git_fetch", "git fetch origin", "git_checkout_tag")

\* lines 255 and 272
Git_checkout_tag == kind = "git" /\ Exec("git_checkout_tag", "git checkout -f <tag>", AfterCheckout)

\* line 274
Git_checkout == kind = "git" /\ Exec("git_checkout", "git checkout -f", "git_pull")

\* line 275
Git_pull == kind = "git" /\ Exec("git_pull", "git pull --rebase", AfterCheckout)

\* lines 259 and 279: the submodules are cloned inside the build directory
Git_submodule ==
    /\ vpc = "git_submodule"
    /\ log' = Append(log, "git submodule update --init")
    /\ \E ok \in BOOLEAN :
          IF ok
          THEN /\ submodules' = "complete"
               /\ vpc' = "create_zip"
               /\ UNCHANGED <<vret, failed>>
          ELSE /\ submodules' \in (IF submodules = "complete" THEN {"complete"}
                                   ELSE {submodules, "partial"})
               /\ Fail("git submodule update --init")
    /\ UNCHANGED <<kind, tag, fetch_submodules, patch_dir, build_dir, tmp_dir,
                   nested, vop, dirsAtCall, ops>>
    /\ UNCHANGED <<tag_name, zip_file, export_file>>
    /\ UNCHANGED notVcs

\* lines 217-229 with the tag returned as it is
Git_get_tag_name_Raw ==
    /\ vpc \in {"create_zip", "export_tag"}
    /\ tag # <<>>
    /\ tag_name' = tag
    /\ vpc' = IF vpc = "create_zip" THEN "zip" ELSE "git_archive"
    /\ UNCHANGED <<log, vret, failed>>
    /\ UNCHANGED <<kind, tag, fetch_submodules, patch_dir, build_dir, tmp_dir,
                   nested, submodules, vop, dirsAtCall, ops>>
    /\ UNCHANGED <<zip_file, export_file>>
    /\ UNCHANGED notVcs

\* lines 217-229, called on line 236 and on line 291: with a tag pinned no
\* command runs, else 'git rev-parse --short HEAD' does and its first line
\* is the name
Git_get_tag_name ==
    /\ vpc \in {"create_zip", "export_tag"}
    /\ LET next == IF vpc = "create_zip" THEN "zip" ELSE "git_archive"
       IN  IF tag # <<>>
           THEN /\ tag_name' = sanitized(tag)
                /\ vpc' = next
                /\ UNCHANGED <<log, vret, failed>>
           ELSE /\ log' = Append(log, "git rev-parse --short HEAD")
                /\ \E ok \in BOOLEAN :
                      IF ok
                      THEN /\ tag_name' = rstrip_nl(readline(RevParseOutput))
                           /\ vpc' = next
                           /\ UNCHANGED <<vret, failed>>
                      ELSE /\ Fail("git rev-parse --short HEAD")
                           /\ UNCHANGED tag_name
    /\ UNCHANGED <<kind, tag, fetch_submodules, patch_dir, build_dir, tmp_dir,
                   nested, submodules, vop, dirsAtCall, ops>>
    /\ UNCHANGED <<zip_file, export_file>>
    /\ UNCHANGED notVcs

\* lines 238-246: the snapshot zip '<prj_dir>-<zip_post>.zip' is written;
\* then line 262 (unpack returns nothing) or line 283
Git_make_zip ==
    /\ vpc = "zip"
    /\ log' = Append(log, "make_zip")
    /\ zip_file' = PrjDir \o <<"-">> \o tag_name \o DotZip
    /\ IF vop = "update_build_dir" /\ patch_dir
       THEN vpc' = "copy_all" /\ UNCHANGED vret
       ELSE VFinish("None")
    /\ UNCHANGED <<kind, tag, fetch_submodules, patch_dir, build_dir, tmp_dir,
                   nested, submodules, vop, dirsAtCall, ops>>
    /\ UNCHANGED <<tag_name, export_file, failed>>
    /\ UNCHANGED notVcs

\* line 288
Git_export == kind = "git" /\ VStart("export", "export_tag")

\* lines 291-292: 'git archive -o <name>-<tag_name>.zip HEAD'
Git_archive ==
    /\ vpc = "git_archive"
    /\ export_file' = Name \o <<"-">> \o tag_name \o DotZip
    /\ log' = Append(log, "git archive")
    /\ \E ok \in BOOLEAN :
          IF ok THEN vpc' = "export_zip" /\ UNCHANGED <<vret, failed>>
          ELSE Fail("git archive")
    /\ UNCHANGED <<kind, tag, fetch_submodules, patch_dir, build_dir, tmp_dir,
                   nested, submodules, vop, dirsAtCall, ops>>
    /\ UNCHANGED <<tag_name, zip_file>>
    /\ UNCHANGED notVcs

\* lines 294-303: the export bundle is written, export returns nothing
Git_export_zip ==
    /\ vpc = "export_zip"
    /\ log' = Append(log, "export zip")
    /\ VFinish("None")
    /\ UNCHANGED <<kind, tag, fetch_submodules, patch_dir, build_dir, tmp_dir,
                   nested, submodules, vop, dirsAtCall, ops>>
    /\ UNCHANGED <<tag_name, zip_file, export_file, failed>>
    /\ UNCHANGED notVcs

\* lines 284-286: update_build_dir ends and returns nothing
Git_copy_all ==
    /\ vpc = "copy_all"
    /\ log' = Append(log, "copy_all")
    /\ VFinish("None")
    /\ UNCHANGED <<kind, tag, fetch_submodules, patch_dir, build_dir, tmp_dir,
                   nested, submodules, vop, dirsAtCall, ops>>
    /\ UNCHANGED <<tag_name, zip_file, export_file, failed>>
    /\ UNCHANGED notVcs

\* ---- NullExpander

\* a method of NullExpander runs, from its first line to its last, and returns r
NullCall(op, r) ==
    /\ vpc = "idle"
    /\ ops < MaxOps
    /\ vop' = op
    /\ vret' = r
    /\ log' = <<>>
    /\ dirsAtCall' = dirs
    /\ ops' = ops + 1
    /\ UNCHANGED <<kind, tag, fetch_submodules, patch_dir, build_dir, tmp_dir,
                   nested, submodules, vpc>>
    /\ UNCHANGED <<tag_name, zip_file, export_file, failed>>
    /\ UNCHANGED notVcs

\* lines 311-313 with the return statement left out
Null_update_build_dir_NoReturn == kind = "none" /\ NullCall("update_build_dir", "None")

\* lines 311-313
Null_update_build_dir == kind = "none" /\ NullCall("update_build_dir", "True")

\* lines 315-317
Null_unpack == kind = "none" /\ NullCall("unpack", "None")

\* lines 319-320
Null_export == kind = "none" /\ NullCall("export", "None")

\* the process is killed while a method of the git or hg acquirer runs: the
\* command it was running may have left a part of its work behind
VInterrupt ==
    /\ vpc # "idle"
    /\ VFinish("interrupted")
    /\ tmp_dir' \in (IF vpc \in {"git_clone", "hg_clone"} /\ tmp_dir = "absent"
                     THEN {"absent", "partial"} ELSE {tmp_dir})
    /\ submodules' \in (IF vpc = "git_submodule" /\ submodules # "complete"
                        THEN {submodules, "partial"} ELSE {submodules})
    /\ UNCHANGED <<kind, tag, fetch_submodules, patch_dir, build_dir, nested,
                   vop, log, dirsAtCall, ops>>
    /\ UNCHANGED <<tag_name, zip_file, export_file, failed>>
    /\ UNCHANGED notVcs

NextVcs ==
    \/ Hg_unpack
    \/ Hg_clone
    \/ Hg_move
    \/ Hg_update_build_dir
    \/ Hg_pull
    \/ Git_unpack
    \/ Git_clone
    \/ Git_move
    \/ Git_update_build_dir
    \/ Git_clean
    \/ Git_fetch
    \/ Git_checkout_tag
    \/ Git_checkout
    \/ Git_pull
    \/ Git_submodule
    \/ Git_get_tag_name
    \/ Git_make_zip
    \/ Git_copy_all
    \/ Git_export
    \/ Git_archive
    \/ Git_export_zip
    \/ Null_update_build_dir
    \/ Null_unpack
    \/ Null_export
    \/ VInterrupt

\* -------------------------------------------------------------- dirlist2set

\* the names on disk and in skipped_dir: 'Bld', 'bld', 'src', '__pycache__',
\* '__PyCache__' and the file 'A.c'
DirBld == <<"B", "l", "d">>
DirBldLower == <<"b", "l", "d">>
DirSrc == <<"s", "r", "c">>
DirPycache == <<"_", "_", "p", "y", "c", "a", "c", "h", "e", "_", "_">>
DirPycacheMixed == <<"_", "_", "P", "y", "C", "a", "c", "h", "e", "_", "_">>
FileA == <<"A", ".", "c">>

\* what st_dir may hold, below st_dir
TreeEntries ==
    (<<DirBld>> :> "dir") @@ (<<DirBld, FileA>> :> "file")
    @@ (<<DirBldLower>> :> "dir") @@ (<<DirBldLower, FileA>> :> "file")
    @@ (<<DirSrc>> :> "dir")
    @@ (<<DirSrc, DirBld>> :> "dir") @@ (<<DirSrc, DirBld, FileA>> :> "file")
    @@ (<<DirSrc, DirPycache>> :> "dir") @@ (<<DirSrc, DirPycache, FileA>> :> "file")
    @@ (<<DirPycacheMixed>> :> "dir") @@ (<<DirPycacheMixed, FileA>> :> "file")
    @@ (<<FileA>> :> "file")

\* the path with every component lower-cased
lowerPath(p) == [i \in 1..Len(p) |-> lower(p[i])]

\* The directories st_dir can be: every entry has its parent.  On a
\* filesystem that ignores the letter case on lookup (it keeps the case of
\* the names) no two entries differ in letter case only.
Trees(cs) ==
    {[p \in ps \cup {Root} |-> IF p = Root THEN "dir" ELSE TreeEntries[p]] :
        ps \in {qs \in SUBSET (DOMAIN TreeEntries) :
                  /\ \A q \in qs : Ancestors(q) \subseteq qs
                  /\ cs \/ \A q1, q2 \in qs : lowerPath(q1) = lowerPath(q2) => q1 = q2}}

\* st_dir is not there
NoTree == [p \in {} |-> "dir"]

SkippedNone == [given |-> FALSE, names |-> <<>>]
SkippedList(l) == [given |-> TRUE, names |-> l]

\* the values of skipped_dir: None, [], ['Bld'], ['bld'], ['src']
SkippedDirs ==
    {SkippedNone, SkippedList(<<>>), SkippedList(<<DirBld>>),
     SkippedList(<<DirBldLower>>), SkippedList(<<DirSrc>>)}

\* set(l)
Range(l) == {l[i] : i \in DOMAIN l}

\* the entries of the directory d of the tree
Entries(t, d) == {p \in DOMAIN t : Len(p) = Len(d) + 1 /\ IsPrefix(d, p)}

\* the directories that the path p, as it is written, opens: the one with
\* these very names, or on a filesystem that ignores the case the one with
\* these names in any case
Opens(t, cs, p) ==
    {q \in DOMAIN t :
        /\ t[q] = "dir"
        /\ IF cs THEN q = p ELSE lowerPath(q) = lowerPath(p)}

\* os.scandir(p) raises FileNotFoundError
scandir_fails(t, cs, p) == Opens(t, cs, p) = {}

\* os.scandir(p): the entries of the directory that p opens
scandir(t, cs, p) == Entries(t, CHOOSE q \in Opens(t, cs, p) : TRUE)

\* a call of _load_single_dir(dir_name, ...) with the entries its loop has
\* not come to yet
Frame(dir_name, left) == [dir_name |-> dir_name, left |-> left]

\* no call of dirlist2set runs or has run
IdleDir ==
    /\ tree = NoTree
    /\ case_sensitive = FALSE
    /\ add_dirs = FALSE
    /\ skipped_dir = SkippedNone
    /\ rt = {}
    /\ warned = FALSE
    /\ dpc = "idle"
    /\ dstack = <<>>

InitDir ==
    /\ case_sensitive \in BOOLEAN
    /\ tree \in Trees(case_sensitive) \cup {NoTree}
    /\ add_dirs \in BOOLEAN
    /\ skipped_dir \in SkippedDirs
    /\ rt = {}
    /\ warned = FALSE
    /\ dpc = "idle"
    /\ dstack = <<>>

\* lines 154-163 without the try: FileNotFoundError leaves dirlist2set
dirlist2set_NoTry ==
    /\ dpc = "idle"
    /\ skipped_dir' = IF skipped_dir.given
                      THEN SkippedList(Append(skipped_dir.names, DirPycache))
                      ELSE skipped_dir
    /\ rt' = {}
    /\ IF scandir_fails(tree, case_sensitive, Root)
       THEN /\ dpc' = "raised"
            /\ dstack' = <<>>
       ELSE /\ dpc' = "load"
            /\ dstack' = <<Frame(Root, scandir(tree, case_sensitive, Root))>>
    /\ UNCHANGED <<tree, add_dirs, case_sensitive, warned>>
    /\ UNCHANGED notDir

\* lines 154-162: dirlist2set(st_dir, add_dirs, skipped_dir) is called and
\* _load_single_dir(st_dir, ...) opens st_dir; when st_dir is not there the
\* warning is printed and the empty set is returned
dirlist2set ==
    /\ dpc = "idle"
    /\ skipped_dir' = IF skipped_dir.given
                      THEN SkippedList(Append(skipped_dir.names, DirPycache))
                      ELSE skipped_dir
    /\ rt' = {}
    /\ IF scandir_fails(tree, case_sensitive, Root)
       THEN /\ warned' = TRUE
            /\ dpc' = "done"
            /\ dstack' = <<>>
       ELSE /\ warned' = FALSE
            /\ dpc' = "load"
            /\ dstack' = <<Frame(Root, scandir(tree, case_sensitive, Root))>>
    /\ UNCHANGED <<tree, add_dirs, case_sensitive>>
    /\ UNCHANGED notDir

\* set(skipped_dir), line 160
skipped_set == Range(skipped_dir.names) \cup {DirPycache}

\* lines 143-153: the loop of the innermost _load_single_dir takes its next
\* entry cf, in the order the filesystem gives the entries.  A directory that
\* is not skipped is entered by its lower-cased path; when that path opens
\* nothing, FileNotFoundError ends the whole walk at line 161.
load_single_dir ==
    /\ dpc = "load"
    /\ dstack # <<>>
    /\ LET n == Len(dstack)
           top == dstack[n]
       IN  \E cf \in top.left :
              LET name == basename(cf)
                  full == join(top.dir_name, <<lower(name)>>)
                  rest == [dstack EXCEPT ![n] = Frame(top.dir_name, top.left \ {cf})]
              IN  IF tree[cf] = "file"
                  THEN /\ rt' = rt \cup {full}
                       /\ dstack' = rest
                       /\ UNCHANGED <<dpc, warned>>
                  ELSE IF lower(name) \in skipped_set
                  THEN /\ dstack' = rest
                       /\ UNCHANGED <<rt, dpc, warned>>
                  ELSE /\ rt' = IF add_dirs THEN rt \cup {full} ELSE rt
                       /\ IF scandir_fails(tree, case_sensitive, full)
                          THEN /\ warned' = TRUE
                               /\ dpc' = "done"
                               /\ dstack' = <<>>
                          ELSE /\ dstack' =
                                      Append(rest, Frame(full, scandir(tree, case_sensitive, full)))
                               /\ UNCHANGED <<dpc, warned>>
    /\ UNCHANGED <<tree, add_dirs, skipped_dir, case_sensitive>>
    /\ UNCHANGED notDir

\* the loop of the innermost _load_single_dir is through: it returns, and
\* with the outermost one dirlist2set returns rt (line 163)
load_single_dir_return ==
    /\ dpc = "load"
    /\ dstack # <<>>
    /\ dstack[Len(dstack)].left = {}
    /\ dstack' = SubSeq(dstack, 1, Len(dstack) - 1)
    /\ dpc' = IF Len(dstack) = 1 THEN "done" ELSE "load"
    /\ UNCHANGED <<tree, add_dirs, skipped_dir, rt, warned, case_sensitive>>
    /\ UNCHANGED notDir

NextDir ==
    \/ dirlist2set
    \/ load_single_dir
    \/ load_single_dir_return

\* ----------------------------------------------------------------- make_zip

\* the characters of the paths given to make_zip, in the order of their code
\* points: '.' 46, '/' 47, 'B' 66, 'a' 97, 'b' 98, 'd' 100
CodeOrder == <<".", "/", "B", "a", "b", "d">>

\* ord(c)
Ord(c) == CHOOSE i \in DOMAIN CodeOrder : CodeOrder[i] = c

\* a < b on str: the first character that differs decides, a proper prefix
\* is smaller
RECURSIVE StrLess(_, _)
StrLess(a, b) ==
    IF b = <<>> THEN FALSE
    ELSE IF a = <<>> THEN TRUE
    ELSE IF Ord(Head(a)) # Ord(Head(b)) THEN Ord(Head(a)) < Ord(Head(b))
    ELSE StrLess(Tail(a), Tail(b))

\* x put at its place in the sorted list l
RECURSIVE Insert(_, _)
Insert(x, l) ==
    IF l = <<>> THEN <<x>>
    ELSE IF StrLess(x, Head(l)) THEN <<x>> \o l
    ELSE <<Head(l)>> \o Insert(x, Tail(l))

\* sorted(l)
RECURSIVE sorted(_)
sorted(l) == IF l = <<>> THEN <<>> ELSE Insert(Head(l), sorted(Tail(l)))

\* f[n:]
SliceFrom(f, n) == IF n >= Len(f) THEN <<>> ELSE SubSeq(f, n + 1, Len(f))

\* list(s): the elements of the set, each once, in any order
Lists(s) ==
    {l \in [1..Cardinality(s) -> s] : \A i, j \in DOMAIN l : l[i] = l[j] => i = j}

\* the paths of the model: 'd/B', 'd/a', 'd/a.c', 'd/b'
ZipPaths ==
    {<<"d", "/", "B">>, <<"d", "/", "a">>, <<"d", "/", "a", ".", "c">>,
     <<"d", "/", "b">>}

\* skip_spc: nothing dropped, or the two characters of 'd/'
SkipSpcs == {0, Len(<<"d", "/">>)}

\* no call of make_zip runs or has run
IdleZip ==
    /\ files = {}
    /\ skip_spc = 0
    /\ zorder = <<>>
    /\ zqueue = <<>>
    /\ zf = <<>>
    /\ zpc = "idle"
    /\ zprev = [order |-> <<>>, zf |-> <<>>]
    /\ zips = 0

InitZip ==
    /\ files \in SUBSET ZipPaths
    /\ skip_spc \in SkipSpcs
    /\ zorder = <<>>
    /\ zqueue = <<>>
    /\ zf = <<>>
    /\ zpc = "idle"
    /\ zprev = [order |-> <<>>, zf |-> <<>>]
    /\ zips = 0

\* lines 172-174 with the loop over list(files) as the set gives it
make_zip_open_Unsorted ==
    /\ zpc = "idle"
    /\ zips < MaxZips
    /\ \E l \in Lists(files) :
          /\ zorder' = l
          /\ zqueue' = l
    /\ zf' = <<>>
    /\ zprev' = [order |-> zorder, zf |-> zf]
    /\ zpc' = "write"
    /\ zips' = zips + 1
    /\ UNCHANGED <<files, skip_spc>>
    /\ UNCHANGED notZip

\* lines 172-174: the zip is created empty, the set is listed and sorted
make_zip_open ==
    /\ zpc = "idle"
    /\ zips < MaxZips
    /\ \E l \in Lists(files) :
          /\ zorder' = l
          /\ zqueue' = sorted(l)
    /\ zf' = <<>>
    /\ zprev' = [order |-> zorder, zf |-> zf]
    /\ zpc' = "write"
    /\ zips' = zips + 1
    /\ UNCHANGED <<files, skip_spc>>
    /\ UNCHANGED notZip

\* line 175: zf.write(f, arcname=f[skip_spc:]) for the next f
make_zip_write ==
    /\ zpc = "write"
    /\ zqueue # <<>>
    /\ zf' = Append(zf, [filename |-> Head(zqueue),
                         arcname |-> SliceFrom(Head(zqueue), skip_spc)])
    /\ zqueue' = Tail(zqueue)
    /\ UNCHANGED <<files, skip_spc, zorder, zpc, zprev, zips>>
    /\ UNCHANGED notZip

\* the loop is through: the zip is closed, line 176
make_zip_end ==
    /\ zpc = "write"
    /\ zqueue = <<>>
    /\ zpc' = "idle"
    /\ UNCHANGED <<files, skip_spc, zorder, zqueue, zf, zprev, zips>>
    /\ UNCHANGED notZip

NextZip ==
    \/ make_zip_open
    \/ make_zip_write
    \/ make_zip_end

\* ------------------------------------------ stripped tar members with links

\* a symbolic ("sym") or hard ("lnk") link member: its name and its linkname,
\* both split at '/'
Link(n, t, l) == [name |-> n, type |-> t, data |-> <<>>, linkname |-> l]

L == <<"l">>
G == <<"g">>
Up == <<".", ".">>

\* the members of the tar that are no links: w/, w/f, w/e/, w/e/g
PlainMembers ==
    <<Member(<<W>>, "dir", <<>>), Member(<<W, F>>, "file", <<"1">>),
      Member(<<W, E>>, "dir", <<>>), Member(<<W, E, G>>, "file", <<"2">>)>>

\* the links of the model, at w/l and at w/e/l, and one beside the wrapping
\* directory.  A hard link names its
\* target by the path in the archive, a symbolic link by a path relative to
\* the directory the link is in.
LinkMembers ==
    {Link(<<W, L>>, "lnk", <<W, F>>), Link(<<W, L>>, "lnk", <<W, E, G>>),
     Link(<<W, E, L>>, "lnk", <<W, F>>), Link(<<W, E, L>>, "lnk", <<W, E, G>>),
     Link(<<W, L>>, "sym", <<F>>), Link(<<W, L>>, "sym", <<E, G>>),
     Link(<<W, E, L>>, "sym", <<G>>), Link(<<W, E, L>>, "sym", <<Up, F>>),
     Link(<<W, E, L>>, "sym", <<Up, E, G>>),
     Link(<<L>>, "sym", <<W, F>>)}

\* the tars of the model: the plain members, then one link or more
LinkTars ==
    {PlainMembers \o ls :
        ls \in UNION {[1..n -> LinkMembers] : n \in 1..MaxLinks}}

\* no tar with links is looked at
IdleTar ==
    /\ tar_members = <<>>
    /\ tar_idx = 1
    /\ tar_yielded = <<>>
    /\ tar_pc = "idle"

InitTar ==
    /\ tar_members \in LinkTars
    /\ tar_idx = 1
    /\ tar_yielded = <<>>
    /\ tar_pc = "idle"

\* line 126 with strip_one: extractall asks the generator for its first member
get_stripped_tar_members ==
    /\ tar_pc = "idle"
    /\ tar_pc' = "gen"
    /\ UNCHANGED <<tar_members, tar_idx, tar_yielded>>
    /\ UNCHANGED notTar

\* lines 52-62: the generator looks at the next member
get_stripped_next ==
    /\ tar_pc = "gen"
    /\ tar_idx <= Len(tar_members)
    /\ LET s == get_stripped_tar_member(tar_members[tar_idx])
       IN  CASE s.act = "continue" ->
                   /\ tar_idx' = tar_idx + 1
                   /\ UNCHANGED <<tar_yielded, tar_pc>>
             [] s.act = "raise" ->
                   /\ tar_pc' = "raised"
                   /\ UNCHANGED <<tar_idx, tar_yielded>>
             [] OTHER ->
                   /\ tar_yielded' = Append(tar_yielded, [from |-> tar_idx, member |-> s.member])
                   /\ tar_idx' = tar_idx + 1
                   /\ UNCHANGED tar_pc
    /\ UNCHANGED tar_members
    /\ UNCHANGED notTar

\* the loop of line 52 is through
get_stripped_end ==
    /\ tar_pc = "gen"
    /\ tar_idx > Len(tar_members)
    /\ tar_pc' = "done"
    /\ UNCHANGED <<tar_members, tar_idx, tar_yielded>>
    /\ UNCHANGED notTar

NextTar ==
    \/ get_stripped_tar_members
    \/ get_stripped_next
    \/ get_stripped_end

\* ---------------------------------------------------------- specifications

\* no call of extract_exec runs or has run
IdleExtract ==
    /\ InitExtract
    /\ fs = EmptyFs
    /\ recipe = [dir_part |-> <<>>, strip_one |-> FALSE, check_file |-> CheckFileNone,
                 force_dest |-> <<>>, check_mark |-> FALSE, caller |-> "extract_exec"]

\* extract_exec and Tarball on one destination
Init == InitExtract /\ IdleVcs /\ IdleDir /\ IdleZip /\ IdleTar

Spec == Init /\ [][NextExtract]_vars

\* one git, hg or none acquirer
InitSpecVcs == InitVcs /\ IdleExtract /\ IdleDir /\ IdleZip /\ IdleTar

SpecVcs == InitSpecVcs /\ [][NextVcs]_vars

\* dirlist2set on one directory
InitSpecDir == InitDir /\ IdleExtract /\ IdleVcs /\ IdleZip /\ IdleTar

SpecDir == InitSpecDir /\ [][NextDir]_vars

\* make_zip on one set of files
InitSpecZip == InitZip /\ IdleExtract /\ IdleVcs /\ IdleDir /\ IdleTar

SpecZip == InitSpecZip /\ [][NextZip]_vars

\* __get_stripped_tar_members on one tar with links
InitSpecTar == InitTar /\ IdleExtract /\ IdleVcs /\ IdleDir /\ IdleZip

SpecTar == InitSpecTar /\ [][NextTar]_vars


\* ------------------------------------------------------------------ claims

\* the call has returned a value (no exception, no interrupt)
Returned == pc = "idle" /\ ret \in {"True", "False"}

\* the tar or zip has one wrapping directory and every entry lies below it
SingleWrapper(src) ==
    /\ ext(src) # ExtExe
    /\ \E top \in {m.name[1] : m \in {src.members[i] : i \in DOMAIN src.members}} :
          \A i \in DOMAIN src.members :
              /\ src.members[i].name[1] = top
              /\ Len(src.members[i].name) = 1 => src.members[i].type = "dir"

IsTar(src) == ext(src) \notin {ExtExe, ExtZip}

HasTopLevelFile(src) ==
    \E i \in DOMAIN src.members :
        Len(src.members[i].name) = 1 /\ src.members[i].type # "dir"

\* C1: with check_mark on one destination, (a) a call that starts with no
\* marker and returns, returns True after extracting; (b) a call that follows
\* a call that returned True for the same source returns False and leaves the
\* filesystem as it was; (c) a call that follows a call that returned True for
\* a source with another base name purges full_dest and returns True.
C1_MarkIdempotent ==
    (Returned /\ args.check_mark) =>
        /\ ~exists(fsAtCall, MarkerPath(args)) => (ret = "True" /\ written # {})
        /\ (prev.ret = "True" /\ prev.src = args.src) =>
               (ret = "False" /\ fs = fsAtCall)
        /\ (prev.ret = "True" /\ basename(prev.src.path) # basename(args.src.path)) =>
               (ret = "True" /\ purged)

\* C1, for sources whose base names neither start nor end with white space:
\* the three parts hold.
Trimmed(src) == strip(basename(src.path)) = basename(src.path)

C1_MarkIdempotentTrimmed ==
    (Returned /\ args.check_mark /\ Trimmed(args.src)) =>
        /\ ~exists(fsAtCall, MarkerPath(args)) => (ret = "True" /\ written # {})
        /\ (prev.ret = "True" /\ prev.src = args.src) =>
               (ret = "False" /\ fs = fsAtCall)
        /\ (/\ prev.ret = "True" /\ Trimmed(prev.src)
            /\ basename(prev.src.path) # basename(args.src.path)) =>
               (ret = "True" /\ purged)

\* C1: the second call with the same source has returned False
C1_SecondCallSkipped ==
    /\ Returned /\ args.check_mark
    /\ prev.ret = "True" /\ prev.src = args.src
    /\ ret = "False"

\* C2: when extract_exec with strip_one raises on a tar that has a file at the
\* top level, the filesystem is as it was when the call started.
C2_NothingWritten ==
    (/\ pc = "idle" /\ ret = "raised"
     /\ args.strip_one /\ IsTar(args.src) /\ HasTopLevelFile(args.src)) =>
        fs = fsAtCall

\* the children of the directory top moved up one level, top removed
MoveUp(f, top) ==
    LET under == {q \in DOMAIN f : IsPrefix(top, q) /\ q # top}
        up(q) == SubSeq(q, 1, Len(top) - 1) \o SubSeq(q, Len(top) + 1, Len(q))
    IN  [q \in {up(u) : u \in under} |->
            f[CHOOSE u \in under : up(u) = q]]
        @@ Remove(f, under \cup {top})

WrapperOf(src) == join(dest_dir, <<src.members[1].name[1]>>)

\* C3: when the extraction with strip_one of a tar or zip with a single
\* wrapping directory is through, dest_dir is what extracting every entry as
\* stored and moving the children of the wrapping directory up would give.
C3_StripEqualsMoveUp ==
    (/\ pc = "mark" /\ args.strip_one /\ args.dir_part = <<>>
     /\ SingleWrapper(args.src)
     /\ ~exists(fsAtExtract, WrapperOf(args.src))) =>
        fs = MoveUp(extractall(fsAtExtract, dest_dir, args.src.members),
                    WrapperOf(args.src))

\* C3, for tar archives only
C3_TarStripEqualsMoveUp ==
    (/\ pc = "mark" /\ args.strip_one /\ args.dir_part = <<>>
     /\ SingleWrapper(args.src) /\ IsTar(args.src)
     /\ ~exists(fsAtExtract, WrapperOf(args.src))) =>
        fs = MoveUp(extractall(fsAtExtract, dest_dir, args.src.members),
                    WrapperOf(args.src))

MarkerNames(f, d, b) ==
    /\ isfile(f, join(d, <<MarkerName>>))
    /\ f[join(d, <<MarkerName>>)].data = b \o <<"\n">>

\* C5: a marker is empty or names a base name whose extraction into that
\* directory ran to completion after the last purge; when a call with
\* check_mark fails or is interrupted after its purge and before its
\* extraction is through, full_dest has no marker; and the call with
\* check_mark that follows such a call and returns has purged full_dest,
\* extracted and returned True.
C5_MarkerOnlyAfterCompletion ==
    /\ \A d \in FullDests :
          (isfile(fs, join(d, <<MarkerName>>)) /\ fs[join(d, <<MarkerName>>)].data # <<>>) =>
              \E b \in completedIn[d] : MarkerNames(fs, d, b)
    /\ (/\ pc = "idle" /\ ret \in {"raised", "interrupted"}
        /\ args.check_mark /\ purged /\ ~pc_done) =>
          ~exists(fs, MarkerPath(args))
    /\ (/\ Returned /\ args.check_mark
        /\ prev.check_mark /\ prev.purged /\ ~prev.completed
        /\ prev.ret \in {"raised", "interrupted"}) =>
          (ret = "True" /\ purged /\ written # {})

\* C5: a call with check_mark has returned True after a call that was
\* interrupted or failed in the middle of its extraction
C5_ReextractedAfterFailure ==
    /\ Returned /\ args.check_mark /\ ret = "True" /\ purged
    /\ prev.check_mark /\ prev.purged /\ ~prev.completed
    /\ prev.ret \in {"raised", "interrupted"}
    /\ \E q \in DOMAIN fsAtCall : IsPrefix(dest_dir, q) /\ q # dest_dir

\* the marker of full_dest is absent or names another base name than the source's
MarkerAbsentOrOther(f, a) == ~MarkerNames(f, full_dest(a), basename(a.src.path))

\* C6: in a call with check_mark that found the marker absent or naming
\* another base name, full_dest is deleted before anything is written and
\* check_file is dropped; when the call returns it returns True, and every
\* path in full_dest was written by this call.
C6_PurgedBeforeExtraction ==
    (args.check_mark /\ MarkerAbsentOrOther(fsAtCall, args)) =>
        /\ pc = "check_file" =>
              /\ written = {}
              /\ \A q \in DOMAIN fs : ~IsPrefix(full_dest(args), q)
        /\ pc \in {"check_file", "makedirs", "extract", "mark", "mark_write", "return"} =>
              (purged /\ check_file = CheckFileNone)
        /\ Returned =>
              /\ ret = "True"
              /\ purged
              /\ \A q \in DOMAIN fs : IsPrefix(full_dest(args), q) => q \in written

\* C6, for sources whose base names neither start nor end with white space
C6_PurgedBeforeExtractionTrimmed ==
    (/\ args.check_mark /\ MarkerAbsentOrOther(fsAtCall, args)
     /\ Trimmed(args.src)
     /\ \A s \in Sources : MarkerNames(fsAtCall, full_dest(args), basename(s.path)) => Trimmed(s)) =>
        /\ pc = "check_file" =>
              /\ written = {}
              /\ \A q \in DOMAIN fs : ~IsPrefix(full_dest(args), q)
        /\ pc \in {"check_file", "makedirs", "extract", "mark", "mark_write", "return"} =>
              (purged /\ check_file = CheckFileNone)
        /\ Returned =>
              /\ ret = "True"
              /\ purged
              /\ \A q \in DOMAIN fs : IsPrefix(full_dest(args), q) => q \in written

\* C7: the canonical build directory of a git or hg acquirer never holds a
\* part of a clone, and the move to it is reached only with the whole clone
\* at '<build_dir>-tmp', right after the clone command.
C7_NoPartialBuildDir ==
    /\ build_dir # "partial"
    /\ vpc \in {"git_move", "hg_move"} =>
          /\ tmp_dir = "complete"
          /\ log # <<>> /\ log[Len(log)] \in {"git clone", "hg clone"}

\* C7: a second unpack has failed or was interrupted, a part of a clone is
\* at '<build_dir>-tmp' and the build directory is not there
C7_FailedCloneAtTmp ==
    /\ kind \in {"git", "hg"} /\ vop = "unpack" /\ ops >= 2
    /\ vpc = "idle" /\ vret \in {"raised", "interrupted"}
    /\ tmp_dir = "partial" /\ build_dir = "absent"

\* C8: update_build_dir, when it returns, returns True or False.
C8_UpdateReturnsBool ==
    (vop = "update_build_dir" /\ vpc = "idle" /\ vret \notin {"raised", "interrupted"}) =>
        vret \in {"True", "False"}

\* C8, for the archive acquirer: Tarball.update_build_dir returns what the
\* extraction with check_mark returned.
C8_TarballReturnsExtractResult ==
    (args.caller = "Tarball.update_build_dir" /\ Returned) =>
        (opRet = ret /\ args.check_mark)

\* C9: on the none acquirer update_build_dir returns True whenever it is
\* called, and no method changes the directories or runs a command.
C9_NullAlwaysTrue ==
    kind = "none" =>
        /\ vop = "update_build_dir" => vret = "True"
        /\ vop \in {"unpack", "export"} => vret = "None"
        /\ dirs = dirsAtCall
        /\ log = <<>>
        /\ vpc = "idle"

\* C9: update_build_dir has returned True as the third call on a none acquirer
C9_NullUpdatedThrice ==
    kind = "none" /\ vop = "update_build_dir" /\ vret = "True" /\ ops >= 3

\* the directories below st_dir whose name, as it is on disk, is in names
DirsNamed(names) ==
    {d \in DOMAIN tree : d # Root /\ tree[d] = "dir" /\ basename(d) \in names}

\* the paths of the returned set that are d or lie inside d
ListedIn(d) == {q \in rt : IsPrefix(lowerPath(d), q)}

\* the names the caller passed
CallerNames == Range(skipped_dir.names) \ {DirPycache}

\* C10: the set dirlist2set returns has no path that is, or lies inside, a
\* directory whose name is in the caller's skipped_dir or is '__pycache__'.
C10_ExcludedNeverListed ==
    dpc = "done" =>
        \A d \in DirsNamed(CallerNames \cup {DirPycache}) : ListedIn(d) = {}

\* C10, for the names the code matches: a directory is left out when its
\* lower-cased name is '__pycache__' or is, as written, in skipped_dir.
C10_ExcludedWhenLowerCaseGiven ==
    dpc = "done" =>
        \A d \in DOMAIN tree :
            (d # Root /\ tree[d] = "dir"
                /\ lower(basename(d)) \in CallerNames \cup {DirPycache}) =>
                    ListedIn(d) = {}

\* C10: 'Bld' was passed, a directory 'Bld' with a file is on disk, and the
\* call is through
C10_CapitalNameGiven ==
    /\ dpc = "done"
    /\ DirBld \in CallerNames
    /\ <<DirBld, FileA>> \in DOMAIN tree

\* a call of make_zip is through
ZipWritten == zpc = "idle" /\ zips >= 1

\* C11: a finished make_zip has written one entry per element of files, in
\* ascending order of the paths, each named by its path without the first
\* skip_spc characters; a second call on the same set has written the same
\* entries in the same order, however the set was listed.
C11_SortedEntries ==
    ZipWritten =>
        /\ Len(zf) = Cardinality(files)
        /\ {zf[i].filename : i \in DOMAIN zf} = files
        /\ \A i, j \in DOMAIN zf : i < j => StrLess(zf[i].filename, zf[j].filename)
        /\ \A i \in DOMAIN zf :
              /\ Len(zf[i].arcname) = Len(zf[i].filename) - skip_spc
              /\ \A k \in DOMAIN zf[i].arcname :
                    zf[i].arcname[k] = zf[i].filename[k + skip_spc]
        /\ zips >= 2 => zf = zprev.zf

\* C11: two calls are through on a set of three paths or more that the two
\* calls listed in different orders, the second not in ascending order
C11_TwoOrders ==
    /\ ZipWritten /\ zips >= 2
    /\ Cardinality(files) >= 3
    /\ skip_spc > 0
    /\ zorder # zprev.order
    /\ \E i \in DOMAIN zorder : i > 1 /\ StrLess(zorder[i], zorder[i - 1])

\* the tag 'v1.0!' and its name 'v1_0_'
TagV10 == <<"v", "1", ".", "0", "!">>
NameV10 == <<"v", "1", "_", "0", "_">>

\* get_tag_name has returned in the running method, or the method is through
TagNamed ==
    kind = "git" /\ (vpc \in {"zip", "copy_all", "git_archive", "export_zip"}
                        \/ (vpc = "idle" /\ vret = "None" /\ vop # "none"))

\* C12: with a tag pinned, get_tag_name returns the tag with '_' in the place
\* of every character that is no letter and no digit, 'v1_0_' for 'v1.0!',
\* and 'git rev-parse' is not run; with no tag it returns the line that
\* 'git rev-parse --short HEAD' wrote; the snapshot zip and the export file
\* are named with what it returned.
C12_TagNameSanitized ==
    TagNamed =>
        /\ tag # <<>> =>
              /\ Len(tag_name) = Len(tag)
              /\ \A i \in DOMAIN tag :
                    tag_name[i] = (IF isalnum(tag[i]) THEN tag[i] ELSE "_")
              /\ tag = TagV10 => tag_name = NameV10
              /\ \A i \in DOMAIN log : log[i] # "git rev-parse --short HEAD"
        /\ tag = <<>> =>
              /\ tag_name = <<"a", "1", "f">>
              /\ \E i \in DOMAIN log : log[i] = "git rev-parse --short HEAD"
        /\ zip_file # <<>> => zip_file = <<"p", "-">> \o tag_name \o DotZip
        /\ export_file # <<>> => export_file = <<"n", "-">> \o tag_name \o DotZip

\* C12: with the tag 'v1.0!' the snapshot zip was written as 'p-v1_0_.zip'
\* and, in a later call, export has written 'n-v1_0_.zip'
C12_ExportedV10 ==
    /\ kind = "git" /\ tag = TagV10
    /\ vop = "export" /\ vpc = "idle" /\ vret = "None"
    /\ zip_file = <<"p", "-", "v", "1", "_", "0", "_", ".", "z", "i", "p">>
    /\ export_file = <<"n", "-", "v", "1", "_", "0", "_", ".", "z", "i", "p">>

\* C13: dirlist2set on a root that is not there returns, with the warning
\* printed and the empty set as its result.
C13_MissingRootWarns ==
    (dpc # "idle" /\ Root \notin DOMAIN tree) =>
        (dpc = "done" /\ warned /\ rt = {})

\* C13: dirlist2set has returned for a root that is not there, with a
\* skipped_dir given and add_dirs set
C13_MissingRootCalled ==
    /\ dpc = "done" /\ tree = NoTree
    /\ warned /\ add_dirs /\ skipped_dir.given

\* the steps of GitRepo.update_build_dir, in the order the claim gives them
UpdateSteps ==
    <<"git clean -xdf">>
    \o (IF tag # <<>>
        THEN <<"git fetch origin", "git checkout -f <tag>">>
        ELSE <<"git checkout -f", "git pull --rebase">>)
    \o (IF fetch_submodules THEN <<"git submodule update --init">> ELSE <<>>)
    \o (IF tag # <<>> THEN <<>> ELSE <<"git rev-parse --short HEAD">>)
    \o <<"make_zip">>
    \o (IF patch_dir THEN <<"copy_all">> ELSE <<>>)

\* C14: at every point of GitRepo.update_build_dir the steps taken so far
\* are the first steps of: clean, fetch and checkout of the tag (or checkout
\* and pull), submodule update if asked for, snapshot zip (named by the tag
\* or by 'git rev-parse'), copy of the patch directory if it exists; a call
\* that returns has taken them all.
C14_UpdateOrder ==
    (kind = "git" /\ vop = "update_build_dir") =>
        /\ Len(log) <= Len(UpdateSteps)
        /\ \A i \in DOMAIN log : log[i] = UpdateSteps[i]
        /\ (vpc = "idle" /\ vret = "None") => log = UpdateSteps

\* C14: update_build_dir has returned with a tag pinned, the submodules
\* asked for and a patch directory
C14_UpdatedAll ==
    /\ kind = "git" /\ vop = "update_build_dir" /\ vpc = "idle" /\ vret = "None"
    /\ tag # <<>> /\ fetch_submodules /\ patch_dir
    /\ log = <<"git clean -xdf", "git fetch origin", "git checkout -f <tag>",
               "git submodule update --init", "make_zip", "copy_all">>

\* C15: once a command of a method has failed, the method is over with the
\* exception: the failed command is the last step taken (no command, move,
\* snapshot zip, patch copy or export zip after it), it ran once, and a
\* failed clone leaves the build directory as it was.
C15_FailureStops ==
    /\ failed # "" =>
          /\ vpc = "idle" /\ vret = "raised"
          /\ log # <<>> /\ log[Len(log)] = failed
          /\ Cardinality({i \in DOMAIN log : log[i] = failed}) = 1
          /\ failed \in {"git clone", "hg clone"} => build_dir = dirsAtCall[1]
    /\ vret = "raised" => vpc = "idle"

\* C15: 'git fetch origin' failed in update_build_dir, after 'git clean -xdf'
\* and in a second call
C15_FetchFailed ==
    /\ kind = "git" /\ vop = "update_build_dir" /\ ops >= 2
    /\ failed = "git fetch origin"
    /\ log = <<"git clean -xdf", "git fetch origin">>

\* a zip was extracted with strip_one and the call has returned True
ZipStripped ==
    /\ Returned /\ ret = "True"
    /\ ext(args.src) = ExtZip /\ args.strip_one

\* the entries of the source of the call
MembersOf(src) == {src.members[i] : i \in DOMAIN src.members}

\* the directory entry m was extracted on its own: its place below dest_dir
\* was written and no file entry lies below it
ExtractedAlone(m) ==
    /\ join(dest_dir, Tail(m.name)) \in written \ {dest_dir}
    /\ \A n \in MembersOf(args.src) :
          n.type = "file" => ~IsPrefix(Tail(m.name), Tail(n.name))

\* C16: after a zip was extracted with strip_one, every entry that is no
\* directory is a file below dest_dir at its stored name without the first
\* segment, and no directory entry was extracted on its own.
C16_ZipStripOne ==
    ZipStripped =>
        \A m \in MembersOf(args.src) :
            /\ m.type = "file" =>
                  /\ isfile(fs, join(dest_dir, Tail(m.name)))
                  /\ fs[join(dest_dir, Tail(m.name))].data = m.data
            /\ m.type = "dir" => ~ExtractedAlone(m)

\* C16, as the code has it: an entry of two segments or more loses the
\* first, an entry at the top level keeps its name, directory entries are
\* passed over.
C16_ZipStripOneBelowTop ==
    ZipStripped =>
        \A m \in MembersOf(args.src) :
            LET name == IF Len(m.name) > 1 THEN Tail(m.name) ELSE m.name
            IN  /\ m.type = "file" =>
                      /\ isfile(fs, join(dest_dir, name))
                      /\ fs[join(dest_dir, name)].data = m.data
                /\ m.type = "dir" => ~ExtractedAlone(m)

\* C16: the zip with a file at the top level was extracted with strip_one
C16_TopLevelEntryStripped ==
    ZipStripped /\ HasTopLevelFile(args.src)

\* the directory d is skipped: its lower-cased name is in set(skipped_dir)
Excluded(d) == lower(basename(d)) \in skipped_set

\* every directory above p, below st_dir, is walked
Reached(p) == \A a \in Ancestors(p) : ~Excluded(a)

\* what the claim gives as the result: every file reached and, with
\* add_dirs, every directory reached that is not excluded itself, as
\* lower-cased paths
Snapshot ==
    {lowerPath(p) : p \in {q \in DOMAIN tree \ {Root} :
        /\ Reached(q)
        /\ \/ tree[q] = "file"
           \/ tree[q] = "dir" /\ add_dirs /\ ~Excluded(q)}}

\* C17: dirlist2set on a root that is there returns exactly the lower-cased
\* paths of the files reached through directories that are not excluded
\* and, with add_dirs, of those directories.
C17_ExactSnapshot ==
    (dpc = "done" /\ Root \in DOMAIN tree) => rt = Snapshot

\* C17, where the path with lower-cased names opens the directory it was
\* made from: on a filesystem that ignores the letter case, and on one that
\* does not when every directory walked has a lower-case name.
C17_ExactWhenPathOpens ==
    (dpc = "done" /\ Root \in DOMAIN tree
        /\ (case_sensitive =>
               \A d \in DOMAIN tree :
                   (tree[d] = "dir" /\ Reached(d) /\ ~Excluded(d)) => lowerPath(d) = d)) =>
        (rt = Snapshot /\ ~warned)

\* C17: dirlist2set has returned from a tree with the file 'Bld/A.c', 'Bld'
\* not excluded, on a filesystem that tells 'Bld' from 'bld'
C17_CapitalDirWalked ==
    /\ dpc = "done" /\ case_sensitive
    /\ <<DirBld, FileA>> \in DOMAIN tree
    /\ ~Excluded(<<DirBld>>)

\* the path p with its '..' segments taken
RECURSIVE Normalize(_, _)
Normalize(done, p) ==
    IF p = <<>> THEN done
    ELSE IF Head(p) = Up
         THEN IF done = <<>> THEN <<Up>> \o p
              ELSE Normalize(SubSeq(done, 1, Len(done) - 1), Tail(p))
    ELSE Normalize(Append(done, Head(p)), Tail(p))

\* the path in the layout that the link member m designates: a hard link
\* gives it as it is, a symbolic link relative to the directory it is in
Designated(m) ==
    IF m.type = "lnk" THEN m.linkname
    ELSE Normalize(SubSeq(m.name, 1, Len(m.name) - 1), m.linkname)

\* the link of tar_yielded[i] keeps its meaning: what it designates among
\* the stripped members is the member its original designated, stripped
KeepsMeaning(i) ==
    LET y == tar_yielded[i].member
        o == tar_members[tar_yielded[i].from]
    IN  Designated(y) = Tail(Designated(o))

\* the names of the members of the tar, as stored
StoredNames == {tar_members[i].name : i \in DOMAIN tar_members}

\* C18: every link yielded by the generator, hard or symbolic, designates
\* in the stripped layout the member that its original designated in the
\* layout of the archive.
C18_LinksKeepMeaning ==
    \A i \in DOMAIN tar_yielded :
        (IsLink(tar_yielded[i].member)
            /\ Designated(tar_members[tar_yielded[i].from]) \in StoredNames) =>
                KeepsMeaning(i)

\* C18, for hard links: the target is a path of the archive, and loses its
\* first segment as the names do.
C18_HardLinksKeepMeaning ==
    \A i \in DOMAIN tar_yielded :
        (tar_yielded[i].member.type = "lnk"
            /\ Designated(tar_members[tar_yielded[i].from]) \in StoredNames) =>
                KeepsMeaning(i)

\* C18: the generator is through a tar that has the symbolic link
\* w/e/l -> ../f and a hard link
C18_SymlinkYielded ==
    /\ tar_pc = "done"
    /\ \E i \in DOMAIN tar_yielded :
          /\ tar_members[tar_yielded[i].from] = Link(<<W, E, L>>, "sym", <<Up, F>>)
          /\ tar_yielded[i].member.linkname = <<F>>
    /\ \E i \in DOMAIN tar_yielded : tar_yielded[i].member.type = "lnk"

====
